---------------------------- MODULE Spec2Model ----------------------------
(***************************************************************************)
(* Q_FEA: classical FEM matrices -> Hamiltonian -> Pauli decomposition ->  *)
(* Trotter circuit.  This module models                                    *)
(*   - compute_pauli_coefficients                                          *)
(*       (qfea_core/classical_utils/compute_pauli_coeffs_batch_parallel.py)*)
(*   - QuantumSimulator.compute_hamiltonian (app/services/                 *)
(*       quantum_simulator.py) with its call of compute_H                  *)
(*       (qfea_core/classical_utils/hamiltonian_prep.py)                   *)
(*   - simulate_hamiltonian, _create_mock_circuit_result and               *)
(*       synthesize_pauli_rotation                                         *)
(*       (qfea_core/quantum_utils/trotter_circuit_synthesis.py)            *)
(*   - QuantumSimulator._calculate_final_amplitudes                        *)
(*                                                                         *)
(* Numbers.  Matrix entries, coefficients and the threshold are fixed-     *)
(* point: the integer v stands for the real v * 1e-6 / Scale.  Every       *)
(* matrix entry of the model is a multiple of Scale = the largest matrix   *)
(* side, so trace(H)/n is exact for every side n of the model.             *)
(***************************************************************************)
EXTENDS Integers, Sequences, FiniteSets, TLC

VARIABLES
    \* ---- one call of compute_pauli_coefficients(H, max_terms, threshold)
    H,            \* the input matrix: H[i][j] = <<re, im>>, 0-based
    max_terms,    \* argument max_terms
    threshold,    \* argument threshold
    pauli_terms,  \* local list pauli_terms (sequence of Pauli strings)
    pauli_coeffs, \* local list pauli_coeffs
    pc,           \* position in the function body
    result,       \* the returned dictionary (NoResult until the return)
    raised,       \* the exception the call raised ("" for none)
    \* ---- one call of QuantumSimulator.compute_hamiltonian(matrices_result)
    svc_in,       \* the stored matrices and the request's max_pauli_terms
    svc_H,        \* local H: the value compute_H returned
    svc_pc,       \* position in the method body
    svc_out,      \* what the call gave its caller
    \* ---- one call of simulate_hamiltonian(pauli_data, time, trotter_steps)
    tr_in,        \* the arguments and the module's QISKIT_AVAILABLE
    tr_pc,        \* "call" before the call, "done" after it
    tr_out,       \* the returned dictionary, or the exception that escaped
    \* ---- one call of synthesize_pauli_rotation(pauli_string, coefficient,
    \*      num_qubits)
    rot_in,       \* the arguments and the module's QISKIT_AVAILABLE
    rot_pc,       \* "call" before the call, "done" after it
    rot_out,      \* the returned circuit, or None
    \* ---- one call of QuantumSimulator._calculate_final_amplitudes
    amp_in,       \* qubit_count and the sample np.random.exponential gives
    amp_pc,       \* "call" before the call, "done" after it
    amp_out,      \* the returned list
    \* ---- one call of QuantumSimulator._simulate_energy_evolution
    en_in,        \* hamiltonian_result, sim_time, trotter_steps
    en_pc,        \* "call" before the call, "done" after it
    en_out,       \* the returned list
    \* ---- one call of compute_H(K, M, num_modes, method)
    eig_in,       \* the matrices, the arguments, what the solvers yield
    eig_pc,       \* "call" before the call, "done" after it
    eig_out,      \* the returned dictionary, or the exception raised
    \* ---- the web application: the requests about one file_id
    fs,           \* the files kept for the file_id
    app_env,      \* the process: QISKIT_AVAILABLE
    app_hist,     \* history: the id was issued; calls of run_simulation
    app_resp      \* the response to the latest request

vars == <<H, max_terms, threshold, pauli_terms, pauli_coeffs, pc, result,
          raised, svc_in, svc_H, svc_pc, svc_out,
          tr_in, tr_pc, tr_out, rot_in, rot_pc, rot_out,
          amp_in, amp_pc, amp_out, en_in, en_pc, en_out,
          eig_in, eig_pc, eig_out, fs, app_env, app_hist, app_resp>>

pauliVars == <<H, max_terms, threshold, pauli_terms, pauli_coeffs, pc, result,
               raised>>
svcVars == <<svc_in, svc_H, svc_pc, svc_out>>

trotVars == <<tr_in, tr_pc, tr_out>>

rotVars == <<rot_in, rot_pc, rot_out>>

ampVars == <<amp_in, amp_pc, amp_out>>

\* the three calls above, as seen from the other components
synthVars == <<trotVars, rotVars, ampVars>>

enVars == <<en_in, en_pc, en_out>>

eigVars == <<eig_in, eig_pc, eig_out>>

appVars == <<fs, app_env, app_hist, app_resp>>

\* the components above, as seen from the earlier ones
lateVars == <<enVars, eigVars, appVars>>

\* no call of simulate_hamiltonian is in progress
TrotIdle == tr_in = <<>> /\ tr_pc = "idle" /\ tr_out = <<>>

\* no call of synthesize_pauli_rotation is in progress
RotIdle == rot_in = <<>> /\ rot_pc = "idle" /\ rot_out = <<>>

\* no call of _calculate_final_amplitudes is in progress
AmpIdle == amp_in = <<>> /\ amp_pc = "idle" /\ amp_out = <<>>

\* no call of _simulate_energy_evolution is in progress
EnIdle == en_in = <<>> /\ en_pc = "idle" /\ en_out = <<>>

\* no direct call of compute_H is in progress
EigIdle == eig_in = <<>> /\ eig_pc = "idle" /\ eig_out = <<>>

\* the web application is not running
AppIdle == fs = <<>> /\ app_env = <<>> /\ app_hist = <<>> /\ app_resp = <<>>

(***************************************************************************)
(* Bounds of the model.                                                    *)
(***************************************************************************)
\* matrices have side 2^q, q in 0..MaxQubitsModel
MaxQubitsModel == 2
\* max_terms ranges over 0..MaxTermsModel and 10 (Scenario B)
MaxTermsModel == 3

Pow2(q) == 2^q

Scale == Pow2(MaxQubitsModel)
\* the fixed-point image of 1e-6 (the default threshold) and of k * 1e-6
Micro == Scale
Fx(k) == k * Micro

Abs(x) == IF x < 0 THEN -x ELSE x
Min(a, b) == IF a <= b THEN a ELSE b
Re(z) == z[1]
Im(z) == z[2]
Conj(z) == <<z[1], -z[2]>>

\* np.abs(z) > t for complex z and t >= 0: |z|^2 > t^2, decided without
\* squaring anything larger than t.
AbsGt(z, t) ==
    IF Abs(Re(z)) > t \/ Abs(Im(z)) > t THEN TRUE
    ELSE Re(z) * Re(z) + Im(z) * Im(z) > t * t

RECURSIVE CeilLog2From(_, _)
CeilLog2From(n, q) == IF Pow2(q) >= n THEN q ELSE CeilLog2From(n, q + 1)
\* int(np.ceil(np.log2(n))), n >= 1
CeilLog2(n) == CeilLog2From(n, 0)

RECURSIVE FloorLog2From(_, _)
FloorLog2From(n, q) == IF Pow2(q + 1) > n THEN q ELSE FloorLog2From(n, q + 1)
\* int(np.log2(n)), n >= 1
FloorLog2(n) == FloorLog2From(n, 0)

Side(M) == Cardinality(DOMAIN M)

RECURSIVE TraceFrom(_, _)
TraceFrom(M, i) ==
    IF i >= Side(M) THEN <<0, 0>>
    ELSE LET r == TraceFrom(M, i + 1)
         IN  <<Re(M[i][i]) + Re(r), Im(M[i][i]) + Im(r)>>
\* np.trace(H)
Trace(M) == TraceFrom(M, 0)

(***************************************************************************)
(* Pauli strings are sequences over {"I","X","Y","Z"}.                     *)
(***************************************************************************)
Repeat(c, k) == [x \in 1..k |-> c]

\* 'I' * num_qubits
IdentityString(nq) == Repeat("I", nq)

ZStringShort(i, nq) == Repeat("I", i) \o <<"Z">>
\* 'I' * i + 'Z' + 'I' * (num_qubits - i - 1)
ZString(i, nq) == Repeat("I", i) \o <<"Z">> \o Repeat("I", nq - i - 1)

\* list('I' * num_qubits) with positions i and j set to p (0-based)
PairString(p, i, j, nq) ==
    [x \in 1..nq |-> IF x = i + 1 \/ x = j + 1 THEN p ELSE "I"]


(***************************************************************************)
(* compute_pauli_coefficients.  The two parallel lists pauli_terms and     *)
(* pauli_coeffs are the record [t |-> terms, c |-> coefficients].          *)
(***************************************************************************)
NoLists == [t |-> <<>>, c |-> <<>>]

AddTerm(acc, term, coeff) == [t |-> Append(acc.t, term), c |-> Append(acc.c, coeff)]

IdentityCoeffUndivided(tr, n) == Re(tr)
\* trace / n.  For the Hermitian inputs of the model Im(trace) = 0, the
\* magnitude of trace / n is |Re(trace)| / n and float(c) returns the real
\* part.
IdentityCoeff(tr, n) == Re(tr) \div n

\* np.abs(trace) > threshold
IdentityKept(tr, thr) == AbsGt(tr, thr)

\* lines 66-69
AddIdentity(M, thr) ==
    LET n == Side(M)
        tr == Trace(M)
    IN  IF IdentityKept(tr, thr)
        THEN AddTerm(NoLists, IdentityString(CeilLog2(n)), IdentityCoeff(tr, n))
        ELSE NoLists

ZKeptAtThreshold(M, i, thr) == i < Side(M) /\ (AbsGt(M[i][i], thr) \/ Abs(Re(M[i][i])) = thr)
\* i < n and np.abs(H[i, i]) > threshold
ZKept(M, i, thr) == i < Side(M) /\ AbsGt(M[i][i], thr)

RECURSIVE ZLoop(_, _, _, _, _)
\* lines 72-80: the break is taken only right after an append
ZLoop(M, mt, thr, i, acc) ==
    LET n == Side(M)
        nq == CeilLog2(n)
    IN  IF i >= Min(nq, n) THEN acc
        ELSE IF ZKept(M, i, thr)
             THEN LET a == AddTerm(acc, ZString(i, nq), Re(M[i][i]))
                  IN  IF Len(a.t) >= mt THEN a ELSE ZLoop(M, mt, thr, i + 1, a)
             ELSE ZLoop(M, mt, thr, i + 1, acc)

\* lines 86-106: the body of the inner loop up to the appends
PairAdd(M, thr, i, j, acc) ==
    LET n == Side(M)
        nq == CeilLog2(n)
    IN  IF i < n /\ j < n /\ AbsGt(M[i][j], thr)
        THEN LET real_part == Re(M[i][j])
                 imag_part == Im(M[i][j])
                 a1 == IF Abs(real_part) > thr
                       THEN AddTerm(acc, PairString("X", i, j, nq), real_part)
                       ELSE acc
             IN  IF Abs(imag_part) > thr
                 THEN AddTerm(a1, PairString("Y", i, j, nq), imag_part)
                 ELSE a1
        ELSE acc

RECURSIVE InnerLoop(_, _, _, _, _, _)
\* lines 85-112: for j in range(i + 1, min(num_qubits, n)); both breaks
\* (lines 108-109 and 111-112) sit in this loop and leave only it
InnerLoop(M, mt, thr, i, j, acc) ==
    LET n == Side(M)
        nq == CeilLog2(n)
    IN  IF j >= Min(nq, n) THEN acc
        ELSE LET a == PairAdd(M, thr, i, j, acc)
             IN  IF Len(a.t) >= mt THEN a ELSE InnerLoop(M, mt, thr, i, j + 1, a)

RECURSIVE OuterLoop(_, _, _, _, _)
\* line 84: for i in range(min(num_qubits, n - 1)); no break leaves it
OuterLoop(M, mt, thr, i, acc) ==
    LET n == Side(M)
        nq == CeilLog2(n)
    IN  IF i >= Min(nq, n - 1) THEN acc
        ELSE OuterLoop(M, mt, thr, i + 1, InnerLoop(M, mt, thr, i, i + 1, acc))

\* lines 83-112
OffDiagonal(M, mt, thr, acc) ==
    IF Len(acc.t) < mt THEN OuterLoop(M, mt, thr, 0, acc) ELSE acc

\* the two lists as they stand at line 114
Collected(M, mt, thr) ==
    OffDiagonal(M, mt, thr, ZLoop(M, mt, thr, 0, AddIdentity(M, thr)))

RECURSIVE OrdersBy(_, _, _)
\* every order of the indices in rest in which sign * |c[.]| never decreases
OrdersBy(c, rest, sign) ==
    IF rest = {} THEN {<<>>}
    ELSE LET first == {i \in rest :
                         \A k \in rest : sign * Abs(c[i]) <= sign * Abs(c[k])}
         IN  UNION {{<<i>> \o r : r \in OrdersBy(c, rest \ {i}, sign)} : i \in first}

ArgsortAscending(c) == OrdersBy(c, DOMAIN c, 1)
\* np.argsort(-np.abs(pauli_coeffs)): the default sort is not stable, so
\* the order among equal magnitudes is whatever the build produces
ArgsortDescending(c) == OrdersBy(c, DOMAIN c, -1)

TruncateNone(s, mt) == s
\* s[:max_terms] for max_terms >= 0
Truncate(s, mt) == SubSeq(s, 1, Min(mt, Len(s)))

\* [lst[i] for i in indices]
Gather(lst, indices) == [k \in 1..Len(indices) |-> lst[indices[k]]]

\* lines 118-131
Returned(terms, coeffs, mt, sorted_indices, nq) ==
    LET kept == Truncate(sorted_indices, mt)
    IN  [pauli_terms |-> Gather(terms, kept),
         pauli_coefficients |-> Gather(coeffs, kept),
         num_qubits |-> nq,
         num_terms |-> Len(Gather(terms, kept))]

NoResult == [pauli_terms |-> <<>>, pauli_coefficients |-> <<>>,
             num_qubits |-> -1, num_terms |-> -1]

(***************************************************************************)
(* The inputs of the model: Hermitian matrices of side 2^q.  The entries   *)
(* the function reads (the first q diagonal entries and the entries above  *)
(* the diagonal among the first q rows and columns) range over the value   *)
(* sets below; one further diagonal entry ranges over RestVals and only    *)
(* feeds the trace.                                                        *)
(***************************************************************************)
DiagVals == {Fx(-3000000), Fx(2), Fx(5000000)}
RestVals == {0, Fx(2)}
OffVals == {<<0, 0>>, <<Fx(2), Fx(4)>>, <<Fx(-3000000), 0>>}
Thresholds == {Fx(1), Fx(2)}
MaxTermsVals == (0..MaxTermsModel) \cup {10}

PairsOf(q) == {p \in (0..(q - 1)) \X (0..(q - 1)) : p[1] < p[2]}

MkH(q, dz, rest, off) ==
    [i \in 0..(Pow2(q) - 1) |->
        [j \in 0..(Pow2(q) - 1) |->
            IF i = j
            THEN IF i < q THEN <<dz[i], 0>>
                 ELSE IF i = q THEN <<rest, 0>> ELSE <<0, 0>>
            ELSE IF i < j /\ j < q THEN off[<<i, j>>]
                 ELSE IF j < i /\ i < q THEN Conj(off[<<j, i>>])
                 ELSE <<0, 0>>]]

Matrices(q) ==
    {MkH(q, dz, rest, off) :
        dz \in [0..(q - 1) -> DiagVals], rest \in RestVals,
        off \in [PairsOf(q) -> OffVals]}

\* a 1x1 zero matrix: the value of H while no call is modelled
IdleH == [i \in {0} |-> [j \in {0} |-> <<0, 0>>]]

PauliIdle ==
    /\ H = IdleH
    /\ max_terms = 0
    /\ threshold = 0
    /\ pauli_terms = <<>>
    /\ pauli_coeffs = <<>>
    /\ pc = "idle"
    /\ result = NoResult
    /\ raised = ""

(***************************************************************************)
(* compute_pauli_coefficients as a state machine: one action per block of  *)
(* the function body.                                                      *)
(***************************************************************************)
\* lines 43-69: n, num_qubits, the identity term
P_Identity ==
    /\ pc = "start"
    /\ LET a == AddIdentity(H, threshold)
       IN  /\ pauli_terms' = a.t
           /\ pauli_coeffs' = a.c
    /\ pc' = "z_terms"
    /\ UNCHANGED <<H, max_terms, threshold, result, raised,
                   svcVars, synthVars, lateVars>>

\* lines 71-80: the single-qubit Z terms
P_ZTerms ==
    /\ pc = "z_terms"
    /\ LET a == ZLoop(H, max_terms, threshold, 0,
                      [t |-> pauli_terms, c |-> pauli_coeffs])
       IN  /\ pauli_terms' = a.t
           /\ pauli_coeffs' = a.c
    /\ pc' = "off_diagonal"
    /\ UNCHANGED <<H, max_terms, threshold, result, raised,
                   svcVars, synthVars, lateVars>>

\* lines 82-112: the XX and YY terms
P_OffDiagonal ==
    /\ pc = "off_diagonal"
    /\ LET a == OffDiagonal(H, max_terms, threshold,
                            [t |-> pauli_terms, c |-> pauli_coeffs])
       IN  /\ pauli_terms' = a.t
           /\ pauli_coeffs' = a.c
    /\ pc' = "sort"
    /\ UNCHANGED <<H, max_terms, threshold, result, raised,
                   svcVars, synthVars, lateVars>>

\* np.min / np.max of an empty array raise ValueError
MinMaxRaises(c) == Len(c) = 0

LogRangeRaisesUnguarded(c) == MinMaxRaises(c)
\* lines 123-124: the coefficient range is logged only for a non-empty list
LogRangeRaises(c) == IF Len(c) > 0 THEN MinMaxRaises(c) ELSE FALSE

\* lines 114-135: sort by magnitude, truncate, log, return; an exception
\* is logged and raised again by the handler of line 133
P_Return ==
    /\ pc = "sort"
    /\ \E sorted_indices \in ArgsortDescending(pauli_coeffs) :
          LET r == Returned(pauli_terms, pauli_coeffs, max_terms,
                            sorted_indices, CeilLog2(Side(H)))
          IN  /\ pauli_terms' = r.pauli_terms
              /\ pauli_coeffs' = r.pauli_coefficients
              /\ IF LogRangeRaises(r.pauli_coefficients)
                 THEN /\ raised' = "ValueError"
                      /\ result' = result
                 ELSE /\ raised' = raised
                      /\ result' = r
    /\ pc' = "done"
    /\ UNCHANGED <<H, max_terms, threshold, svcVars, synthVars, lateVars>>

(***************************************************************************)
(* compute_H (hamiltonian_prep.py).  A matrix is known here by its side,   *)
(* whether it is stored sparse and whether it is singular; the eigen-      *)
(* solve is known by what it raises and by how many eigenvalues it leaves. *)
(***************************************************************************)
\* len(seq[:k]) for a sequence of length len
SliceLen(len, k) == IF k >= 0 THEN Min(k, len) ELSE IF len + k > 0 THEN len + k ELSE 0

Raise(e) == [kind |-> "raise", error |-> e, side |-> 0]

\* lines 90-122: the log line reads eigenvalues[0]; H = np.diag(eigenvalues);
\* the return value is a dictionary
ComputeH_Finish(n, found) ==
    IF found = 0 THEN Raise("IndexError")
    ELSE [kind |-> "dict", error |-> "", side |-> found]

\* lines 33-126, called as compute_H(Kp, Mp) with the defaults
\* num_modes = 10, method = 'standard'
compute_H(Kp, Mp, n, num_modes, eigsh_fails) ==
    LET modes == Min(num_modes, n - 2)
    IN  IF Kp.sparse /\ Mp.sparse
        THEN IF modes >= 1 /\ ~eigsh_fails
             THEN ComputeH_Finish(n, modes)
             ELSE \* lines 53-63: reduced dense problem
                  IF Mp.singular THEN Raise("LinAlgError")
                  ELSE ComputeH_Finish(n, SliceLen(Min(20, n), modes))
        ELSE IF n <= 1000
             THEN IF Mp.singular THEN Raise("LinAlgError")
                  ELSE ComputeH_Finish(n, SliceLen(n, modes))
             ELSE IF Mp.singular THEN Raise("LinAlgError")
                  ELSE ComputeH_Finish(n, SliceLen(Min(100, n), modes))

(***************************************************************************)
(* QuantumSimulator.compute_hamiltonian (quantum_simulator.py).            *)
(***************************************************************************)
max_qubits == 20

\* 2 ** int(np.ceil(np.log2(original_size)))
PaddedSize(original_size) == Pow2(CeilLog2(original_size))

\* int(np.log2(H.shape[0]))
QubitCount(padded_size) == FloorLog2(padded_size)

Failure(e, q) == [kind |-> "error", error |-> e, qubit_count |-> q,
                  original_dimension |-> 0, padded_dimension |-> 0]

\* lines 46-89 for a value that has a .shape: pad, check the qubit count,
\* call compute_pauli_coefficients.  The call passes the keywords
\* max_pauli_terms= and batch_size=, which compute_pauli_coefficients
\* (H, max_terms, threshold, n_jobs) does not take: a TypeError.
AfterShape(original_size) ==
    LET padded_size == PaddedSize(original_size)
        qubit_count == QubitCount(padded_size)
    IN  IF qubit_count > max_qubits
        THEN Failure("ValueError", qubit_count)
        ELSE Failure("TypeError", -1)

\* lines 46-93: H is what compute_H returned.  A dictionary has no
\* attribute shape: H.shape[0] raises AttributeError, which the handler of
\* line 91 logs and raises again.
AfterComputeH(h) ==
    IF h.kind = "ndarray" THEN AfterShape(h.side)
    ELSE Failure("AttributeError", -1)

SvcIdle ==
    /\ svc_in = [n |-> 0]
    /\ svc_H = [kind |-> "none"]
    /\ svc_pc = "idle"
    /\ svc_out = [kind |-> "none"]

\* lines 37-43: K and M are read from matrices_result and handed to
\* compute_H as compute_H(M, K): the mass matrix in the place of the
\* parameter K, the stiffness matrix in the place of the parameter M
S_CallComputeH ==
    /\ svc_pc = "start"
    /\ LET K == svc_in.stiffness_matrix
           M == svc_in.mass_matrix
           h == compute_H(M, K, svc_in.n, 10, svc_in.eigsh_fails)
       IN  /\ svc_H' = h
           /\ IF h.kind = "raise"
              THEN /\ svc_out' = Failure(h.error, -1)
                   /\ svc_pc' = "done"
              ELSE /\ svc_out' = svc_out
                   /\ svc_pc' = "have_H"
    /\ UNCHANGED <<svc_in, pauliVars, synthVars, lateVars>>

\* lines 46-93
S_AfterComputeH ==
    /\ svc_pc = "have_H"
    /\ svc_out' = AfterComputeH(svc_H)
    /\ svc_pc' = "done"
    /\ UNCHANGED <<svc_in, svc_H, pauliVars, synthVars, lateVars>>

\* the stored matrices: n x n, dense or sparse, singular or not
MaxDofsModel == 13
DofsVals == (1..MaxDofsModel) \cup {1001}
StoredMatrices == [sparse : BOOLEAN, singular : BOOLEAN]

InitHam ==
    /\ PauliIdle
    /\ TrotIdle /\ RotIdle /\ AmpIdle
    /\ EnIdle /\ EigIdle /\ AppIdle
    /\ svc_in \in [n : DofsVals, stiffness_matrix : StoredMatrices,
                   mass_matrix : StoredMatrices, eigsh_fails : BOOLEAN]
    /\ svc_H = [kind |-> "none"]
    /\ svc_pc = "start"
    /\ svc_out = [kind |-> "none"]

NextHam == S_CallComputeH \/ S_AfterComputeH

SpecHam == InitHam /\ [][NextHam]_vars


InitPauli ==
    /\ \E q \in 0..MaxQubitsModel : H \in Matrices(q)
    /\ max_terms \in MaxTermsVals
    /\ threshold \in Thresholds
    /\ pauli_terms = <<>>
    /\ pauli_coeffs = <<>>
    /\ pc = "start"
    /\ result = NoResult
    /\ raised = ""
    /\ SvcIdle
    /\ TrotIdle /\ RotIdle /\ AmpIdle
    /\ EnIdle /\ EigIdle /\ AppIdle

NextPauli == P_Identity \/ P_ZTerms \/ P_OffDiagonal \/ P_Return

SpecPauli == InitPauli /\ [][NextPauli]_vars


(***************************************************************************)
(* Properties of compute_pauli_coefficients (checked under SpecPauli).     *)
(***************************************************************************)
Returns == pc = "done"

PauliLetters == {"I", "X", "Y", "Z"}

\* the positions (0-based) of a Pauli string that hold the letter p
PositionsOf(str, p) == {x - 1 : x \in {y \in DOMAIN str : str[y] = p}}

MinOf(S) == CHOOSE x \in S : \A y \in S : x <= y
MaxOf(S) == CHOOSE x \in S : \A y \in S : x >= y

IsIdentityTerm(str) == \A x \in DOMAIN str : str[x] = "I"
IsZTerm(str) ==
    /\ Cardinality(PositionsOf(str, "Z")) = 1
    /\ Cardinality(PositionsOf(str, "I")) = Len(str) - 1
IsPairTerm(str, p) ==
    /\ Cardinality(PositionsOf(str, p)) = 2
    /\ Cardinality(PositionsOf(str, "I")) = Len(str) - 2

\* a list longer than any candidate list: with it as max_terms no loop of
\* the collection stops early
NoLimit(M) == Side(M) * Side(M) + 2

\* the complete candidate lists: what the collection gathers when nothing
\* stops it
CompleteSet == Collected(H, NoLimit(H), threshold)

ReturnedPairs ==
    {<<result.pauli_terms[k], result.pauli_coefficients[k]>> :
        k \in 1..Len(result.pauli_terms)}

PairsIn(lists) == {<<lists.t[k], lists.c[k]>> : k \in 1..Len(lists.t)}

\* C3: the returned terms are the max_terms largest-magnitude members of
\* the complete candidate set: min(max_terms, size) of its members are
\* returned and no member that is left out is larger in magnitude than a
\* returned one.
C3_TopOfCompleteSet ==
    Returns =>
        /\ ReturnedPairs \subseteq PairsIn(CompleteSet)
        /\ Cardinality(ReturnedPairs) = Min(max_terms, Len(CompleteSet.t))
        /\ \A left \in PairsIn(CompleteSet) \ ReturnedPairs :
              \A kept \in ReturnedPairs : Abs(left[2]) <= Abs(kept[2])

\* C4: with max_terms large enough that nothing is truncated, the identity
\* term is returned iff |trace(H)/n| > threshold, and its coefficient is
\* trace(H)/n.
C4_IdentityIffCoefficientAboveThreshold ==
    (Returns /\ max_terms >= Len(CompleteSet.t)) =>
        LET n == Side(H)
            ident == {pr \in ReturnedPairs : IsIdentityTerm(pr[1])}
        IN  /\ (ident # {}) <=> (Abs(Re(Trace(H))) > threshold * n)
            /\ \A pr \in ident : pr[2] * n = Re(Trace(H))

\* C5: every returned operator string is over {I,X,Y,Z} and has length
\* num_qubits = ceil(log2(n)); for a power-of-two side this is the
\* qubit count int(log2(n)) that compute_hamiltonian derives from it.
C5_StringLength ==
    Returns =>
        LET n == Side(H)
            nq == result.num_qubits
        IN  /\ Pow2(nq) >= n
            /\ nq = 0 \/ Pow2(nq - 1) < n
            /\ (Pow2(nq) = n) => nq = FloorLog2(n)
            /\ \A k \in 1..Len(result.pauli_terms) :
                  /\ Len(result.pauli_terms[k]) = nq
                  /\ \A x \in 1..Len(result.pauli_terms[k]) :
                        result.pauli_terms[k][x] \in PauliLetters

C5_Witness ==
    /\ Returns
    /\ result.num_qubits = 2
    /\ \E pr \in ReturnedPairs : IsZTerm(pr[1]) /\ pr[1][2] = "Z"
    /\ \E pr \in ReturnedPairs : IsPairTerm(pr[1], "X")
    /\ \E pr \in ReturnedPairs : IsIdentityTerm(pr[1])

\* the coefficient that belongs to an operator string: trace/n for the
\* identity, Re H[i,i] for Z on i, Re H[i,j] for XX and Im H[i,j] for YY
\* on i < j (times n, so that trace/n needs no division)
BelongsTimesN(str, M) ==
    LET n == Side(M)
    IN  IF IsIdentityTerm(str) THEN Re(Trace(M))
        ELSE IF IsZTerm(str)
             THEN n * Re(M[MinOf(PositionsOf(str, "Z"))][MinOf(PositionsOf(str, "Z"))])
        ELSE IF IsPairTerm(str, "X")
             THEN n * Re(M[MinOf(PositionsOf(str, "X"))][MaxOf(PositionsOf(str, "X"))])
        ELSE n * Im(M[MinOf(PositionsOf(str, "Y"))][MaxOf(PositionsOf(str, "Y"))])

\* C6: the returned coefficients are in non-increasing order of absolute
\* value, and the k-th coefficient is the one of the k-th operator.
C6_SortedAndPaired ==
    Returns =>
        /\ Len(result.pauli_terms) = Len(result.pauli_coefficients)
        /\ \A k \in 1..(Len(result.pauli_coefficients) - 1) :
              Abs(result.pauli_coefficients[k]) >= Abs(result.pauli_coefficients[k + 1])
        /\ \A k \in 1..Len(result.pauli_terms) :
              Side(H) * result.pauli_coefficients[k]
                  = BelongsTimesN(result.pauli_terms[k], H)

\* the identity term was collected first and is returned last of at
\* least three terms of different magnitudes
C6_Witness ==
    /\ Returns
    /\ Len(result.pauli_terms) >= 3
    /\ IsIdentityTerm(result.pauli_terms[Len(result.pauli_terms)])
    /\ Abs(result.pauli_coefficients[1]) > Abs(result.pauli_coefficients[2])
    /\ Abs(result.pauli_coefficients[2]) > Abs(result.pauli_coefficients[3])
    /\ CompleteSet.t[1] = result.pauli_terms[Len(result.pauli_terms)]

\* C7: at most max_terms terms are returned, and num_terms is the length
\* of the returned term list.
C7_AtMostMaxTerms ==
    Returns =>
        /\ Len(result.pauli_terms) <= max_terms
        /\ Len(result.pauli_coefficients) <= max_terms
        /\ result.num_terms = Len(result.pauli_terms)

\* the candidate list held more than max_terms entries before the
\* truncation
C7_Witness ==
    /\ Returns
    /\ max_terms >= 1
    /\ Len(Collected(H, max_terms, threshold).t) > max_terms
    /\ result.num_terms = max_terms

\* C8: every returned non-identity term has |coefficient| > threshold; a Z
\* term on qubit i carries Re H[i,i], an XX term on (i,j) Re H[i,j], a YY
\* term Im H[i,j].
C8_NonIdentityAboveThreshold ==
    Returns =>
        \A pr \in ReturnedPairs :
            ~IsIdentityTerm(pr[1]) =>
                /\ Abs(pr[2]) > threshold
                /\ IsZTerm(pr[1]) \/ IsPairTerm(pr[1], "X") \/ IsPairTerm(pr[1], "Y")
                /\ Side(H) * pr[2] = BelongsTimesN(pr[1], H)

\* a Z term and a pair term are returned while the diagonal entry of
\* qubit 1, which sits exactly at the threshold, is not
C8_Witness ==
    /\ Returns
    /\ \E pr \in ReturnedPairs : IsZTerm(pr[1])
    /\ \E pr \in ReturnedPairs : IsPairTerm(pr[1], "X") \/ IsPairTerm(pr[1], "Y")
    /\ Side(H) = 4
    /\ Re(H[1][1]) = threshold
    /\ \A pr \in ReturnedPairs : pr[1] # <<"I", "Z">>

\* Scenario B: the 4x4 matrix with H[0,0] = 5, H[1,1] = -3, all else 0
ScenarioB_H ==
    [i \in 0..3 |-> [j \in 0..3 |->
        IF i = 0 /\ j = 0 THEN <<Fx(5000000), 0>>
        ELSE IF i = 1 /\ j = 1 THEN <<Fx(-3000000), 0>>
        ELSE <<0, 0>>]]

ScenarioB == H = ScenarioB_H /\ threshold = Fx(1) /\ max_terms = 10

\* C9: Scenario B returns exactly Z on qubit 0 with 5, Z on qubit 1 with
\* -3 and the identity with 0.5, in this order.
C9_ScenarioB ==
    (Returns /\ ScenarioB) =>
        /\ result.pauli_terms = <<<<"Z", "I">>, <<"I", "Z">>, <<"I", "I">>>>
        /\ result.pauli_coefficients = <<Fx(5000000), Fx(-3000000), Fx(500000)>>
        /\ result.num_terms = 3
        /\ result.num_qubits = 2

C9_Witness == Returns /\ ScenarioB /\ result.num_terms = 3


\* C11: on Hermitian inputs of power-of-two side the call never raises;
\* when no candidate clears the threshold (the zero matrix, for one) it
\* returns the empty decomposition with num_terms = 0.
C11_TotalAndEmpty ==
    Returns =>
        /\ raised = ""
        /\ result # NoResult
        /\ result.num_terms >= 0
        /\ (Len(CompleteSet.t) = 0) =>
              /\ result.pauli_terms = <<>>
              /\ result.pauli_coefficients = <<>>
              /\ result.num_terms = 0

\* the call has returned for a matrix none of whose entries clears the
\* threshold, and for the zero matrix
C11_Witness ==
    /\ Returns
    /\ raised = ""
    /\ result.num_terms = 0
    /\ \/ \A i \in DOMAIN H : \A j \in DOMAIN H : H[i][j] = <<0, 0>>
       \/ Side(H) = 2 /\ Re(H[0][0]) = threshold

(***************************************************************************)
(* Properties of QuantumSimulator.compute_hamiltonian (checked under       *)
(* SpecHam).                                                               *)
(***************************************************************************)
\* C1: whenever compute_H has produced a Hamiltonian of side n >= 1,
\* compute_hamiltonian reports original_dimension = n, padded_dimension =
\* the smallest power of two >= n, and qubit_count with 2^qubit_count =
\* padded_dimension.
C1_ReportsPaddedDimension ==
    (svc_pc = "done" /\ svc_H.kind = "dict" /\ svc_H.side >= 1) =>
        /\ svc_out.kind = "ok"
        /\ svc_out.original_dimension = svc_H.side
        /\ svc_out.padded_dimension >= svc_H.side
        /\ svc_out.padded_dimension < 2 * svc_H.side
        /\ svc_out.qubit_count >= 0
        /\ Pow2(svc_out.qubit_count) = svc_out.padded_dimension

\* the stored matrices are dense and regular
DenseRegular ==
    /\ ~svc_in.stiffness_matrix.sparse /\ ~svc_in.mass_matrix.sparse
    /\ ~svc_in.stiffness_matrix.singular /\ ~svc_in.mass_matrix.singular

\* C22: Scenario A, K = 200e9 * I and M = 7850 * I of size 8 x 8 with four
\* modes: the Hamiltonian built has four (equal) diagonal entries, no
\* padding is applied and the pipeline reports qubit_count = 3.
C22_ScenarioA ==
    (svc_pc = "done" /\ svc_in.n = 8 /\ DenseRegular) =>
        /\ svc_H.kind = "dict"
        /\ svc_H.side = 4
        /\ svc_out.kind = "ok"
        /\ svc_out.qubit_count = 3
        /\ svc_out.padded_dimension = svc_out.original_dimension

\* C27: compute_hamiltonian gives compute_H the stored stiffness matrix as
\* K and the stored mass matrix as M, so the matrix that is inverted is the
\* mass matrix: on dense matrices the inversion fails exactly when the
\* stored mass matrix is singular.
C27_MassIsInverted ==
    (svc_pc = "done" /\ ~svc_in.stiffness_matrix.sparse
       /\ ~svc_in.mass_matrix.sparse)
    => (svc_out.error = "LinAlgError" <=> svc_in.mass_matrix.singular)


(***************************************************************************)
(* trotter_circuit_synthesis.py.  Python values: a dictionary is a         *)
(* function from the keys it holds; a value that may lack len() carries    *)
(* the flag "sized".  A circuit is the list circuit.data of instructions;  *)
(* an angle or a time is the fraction <<numerator, denominator>>.          *)
(***************************************************************************)
MaxTrotTerms == 2
MaxTrotSteps == 3

PyList(items) == [sized |-> TRUE, items |-> items]
PyNone == [sized |-> FALSE, items |-> <<>>]

\* d[k] raises KeyError when k is absent; d.get(k, default) does not
HasKey(d, k) == k \in DOMAIN d
Get(d, k, default) == IF k \in DOMAIN d THEN d[k] ELSE default

\* what a call gives its caller: a returned value or an escaped exception
Ret(r) == [raised |-> "", returned |-> TRUE, result |-> r]
Exc(e) == [raised |-> e, returned |-> FALSE, result |-> <<>>]

RangeOf(n) == [x \in 1..n |-> x - 1]

Instr(name, qubits, param) ==
    [name |-> name, qubits |-> qubits, param |-> param]

NoParam == <<0, 1>>

QuantumCircuit(nq) == [num_qubits |-> nq, data |-> <<>>, global_phase |-> 0]

AppendInstr(circuit, ins) == [circuit EXCEPT !.data = Append(@, ins)]

\* lines 57-58: for i in range(num_qubits): circuit.h(i)
RECURSIVE HLayerFrom(_, _)
HLayerFrom(circuit, i) ==
    IF i >= circuit.num_qubits THEN circuit
    ELSE HLayerFrom(AppendInstr(circuit, Instr("h", <<i>>, NoParam)), i + 1)

RECURSIVE MeasuresFrom(_, _)
MeasuresFrom(circuit, i) ==
    IF i >= circuit.num_qubits THEN circuit
    ELSE MeasuresFrom(AppendInstr(circuit, Instr("measure", <<i>>, NoParam)),
                      i + 1)

\* line 93: circuit.measure_all() appends a barrier over every qubit and one
\* measure per qubit into a new classical register
MeasureAll(circuit) ==
    MeasuresFrom(AppendInstr(circuit,
                     Instr("barrier", RangeOf(circuit.num_qubits), NoParam)),
                 0)

SeqRange(s) == {s[x] : x \in DOMAIN s}

MaxLevel(levels, Q) ==
    IF Q = {} THEN 0
    ELSE CHOOSE m \in {levels[q] : q \in Q} :
             \A q \in Q : levels[q] <= m

\* line 99: circuit.depth(): the longest chain of instructions that share a
\* qubit; a barrier is a directive and adds no level
RECURSIVE DepthFrom(_, _, _)
DepthFrom(data, k, levels) ==
    IF k > Len(data) THEN MaxLevel(levels, DOMAIN levels)
    ELSE IF data[k].name = "barrier" THEN DepthFrom(data, k + 1, levels)
    ELSE LET Q == SeqRange(data[k].qubits)
             l == MaxLevel(levels, Q) + 1
         IN  DepthFrom(data, k + 1,
                 [q \in DOMAIN levels |-> IF q \in Q THEN l ELSE levels[q]])

Depth(circuit) ==
    DepthFrom(circuit.data, 1, [q \in 0..(circuit.num_qubits - 1) |-> 0])

\* lines 144-172: the QASM text of the mock result, line by line
RECURSIVE MockStepLines(_, _)
MockStepLines(num_qubits, i) ==
    IF i >= num_qubits - 1 THEN <<>>
    ELSE << <<"cx", i, i + 1>>, <<"rz(0.1)", i + 1>>, <<"cx", i, i + 1>> >>
         \o MockStepLines(num_qubits, i + 1)

RECURSIVE MockSteps(_, _, _)
MockSteps(num_qubits, step, shown) ==
    IF step >= shown THEN <<>>
    ELSE << <<"// Step", step + 1>> >> \o MockStepLines(num_qubits, 0)
         \o MockSteps(num_qubits, step + 1, shown)

MockQasm(num_qubits, num_pauli_terms, trotter_steps) ==
    << <<"OPENQASM 2.0;">>, <<"include">>,
       <<"qreg q", num_qubits>>, <<"creg c", num_qubits>>,
       <<"// Mock Trotter circuit with steps", trotter_steps>>,
       <<"// Simulating Pauli terms", num_pauli_terms>> >>
    \o [i \in 1..num_qubits |-> <<"h", i - 1>>]
    \o << <<"// Trotter evolution (mock)">> >>
    \o MockSteps(num_qubits, 0, Min(trotter_steps, 3))
    \o << <<"// Measurement">> >>
    \o [i \in 1..num_qubits |-> <<"measure", i - 1>>]

gates_per_term == 3

MockGatesWithoutHadamards(num_qubits, num_pauli_terms, trotter_steps) ==
    num_pauli_terms * gates_per_term * trotter_steps
\* lines 144-146: total_gates = gates_per_step * trotter_steps + num_qubits
MockGates(num_qubits, num_pauli_terms, trotter_steps) ==
    num_pauli_terms * gates_per_term * trotter_steps + num_qubits

\* lines 131-186
create_mock_circuit_result(num_qubits, num_pauli_terms, trotter_steps) ==
    [circuit |-> "None",
     circuit_info |->
         [num_qubits |-> num_qubits,
          num_gates |-> MockGates(num_qubits, num_pauli_terms, trotter_steps),
          depth |-> trotter_steps * num_pauli_terms,
          num_pauli_terms |-> num_pauli_terms],
     qasm |-> MockQasm(num_qubits, num_pauli_terms, trotter_steps),
     success |-> TRUE,
     trotter_steps |-> trotter_steps,
     mock |-> TRUE]

\* SparsePauliOp accepts the labels made of I, X, Y, Z
ValidLabel(term) == \A x \in DOMAIN term : term[x] \in PauliLetters

\* lines 70-73: the pairs of zip(pauli_terms, pauli_coeffs) whose term has
\* num_qubits letters
RECURSIVE ZipFilter(_, _, _, _)
ZipFilter(terms, coeffs, num_qubits, k) ==
    IF k > Min(Len(terms), Len(coeffs)) THEN <<>>
    ELSE (IF Len(terms[k]) = num_qubits
          THEN << <<terms[k], coeffs[k]>> >> ELSE <<>>)
         \o ZipFilter(terms, coeffs, num_qubits, k + 1)

\* line 76: SparsePauliOp(pauli_list, coeff_list) raises on a label it
\* cannot read
SparsePauliOpRaises(pairs) ==
    \E k \in DOMAIN pairs : ~ValidLabel(pairs[k][1])

\* lines 79-82: one PauliEvolutionGate of the whole operator per step
RECURSIVE TrotterLoop(_, _, _, _)
TrotterLoop(circuit, pairs, dt, step) ==
    IF step >= dt[2] THEN circuit
    ELSE TrotterLoop(
             AppendInstr(circuit,
                 Instr("PauliEvolution", RangeOf(circuit.num_qubits), dt)),
             pairs, dt, step + 1)

\* lines 65-90: the inner try; "error" is what the handler of line 88 caught
\* (it logs and goes on with the circuit built so far)
PauliEvolution(circuit, terms, coeffs, dt) ==
    LET pairs == ZipFilter(terms, coeffs, circuit.num_qubits, 1)
    IN  IF Len(pairs) = 0 THEN [circuit |-> circuit, error |-> ""]
        ELSE IF SparsePauliOpRaises(pairs)
        THEN [circuit |-> circuit, error |-> "QiskitError"]
        ELSE [circuit |-> TrotterLoop(circuit, pairs, dt, 0), error |-> ""]

\* lines 93-119: measure, collect the statistics, return
FinishCircuit(circuit, num_terms, time, trotter_steps) ==
    LET measured == MeasureAll(circuit)
    IN  [circuit |-> measured,
         circuit_info |->
             [num_qubits |-> measured.num_qubits,
              num_gates |-> Len(measured.data),
              depth |-> Depth(measured),
              num_pauli_terms |-> num_terms],
         qasm |-> << <<"circuit.qasm() or // QASM export not available">> >>,
         success |-> TRUE,
         trotter_steps |-> trotter_steps,
         evolution_time |-> time]

\* lines 53-119 (Qiskit present)
BuildCircuit(terms, coeffs, num_qubits, time, trotter_steps) ==
    LET circuit == HLayerFrom(QuantumCircuit(num_qubits), 0)
    IN  IF trotter_steps = 0 THEN Exc("ZeroDivisionError")
        ELSE IF Len(terms.items) > 0 /\ ~coeffs.sized
        THEN Exc("TypeError")
        ELSE IF Len(terms.items) > 0 /\ Len(coeffs.items) > 0
        THEN Ret(FinishCircuit(
                 PauliEvolution(circuit, terms.items,
                     coeffs.items, <<time, trotter_steps>>).circuit,
                 Len(terms.items), time, trotter_steps))
        ELSE Ret(FinishCircuit(circuit, Len(terms.items), time,
                               trotter_steps))

\* lines 40-119: the body of the outer try
TryBody(pauli_data, time, trotter_steps, qiskit) ==
    IF ~pauli_data.is_dict THEN Exc("TypeError")
    ELSE IF \E k \in {"pauli_terms", "pauli_coefficients", "num_qubits"} :
                ~HasKey(pauli_data.items, k)
    THEN Exc("KeyError")
    ELSE LET terms == pauli_data.items["pauli_terms"]
             coeffs == pauli_data.items["pauli_coefficients"]
             num_qubits == pauli_data.items["num_qubits"]
         IN  IF ~terms.sized THEN Exc("TypeError")
             ELSE IF ~qiskit
             THEN Ret(create_mock_circuit_result(num_qubits,
                          Len(terms.items), trotter_steps))
             ELSE BuildCircuit(terms, coeffs, num_qubits, time,
                               trotter_steps)

HandlerStepsDefault(trotter_steps) == 10
\* line 127: the handler passes the caller's trotter_steps on
HandlerSteps(trotter_steps) == trotter_steps

\* lines 121-128: the handler of the outer try; its own lookups are not
\* protected
Handler(pauli_data, trotter_steps) ==
    IF ~pauli_data.is_dict THEN Exc("AttributeError")
    ELSE LET terms == Get(pauli_data.items, "pauli_terms", PyList(<<>>))
         IN  IF ~terms.sized THEN Exc("TypeError")
             ELSE Ret(create_mock_circuit_result(
                          Get(pauli_data.items, "num_qubits", 4),
                          Len(terms.items), HandlerSteps(trotter_steps)))

\* lines 18-128
simulate_hamiltonian(pauli_data, time, trotter_steps, qiskit) ==
    LET body == TryBody(pauli_data, time, trotter_steps, qiskit)
    IN  IF body.raised = "" THEN body
        ELSE Handler(pauli_data, trotter_steps)

(***************************************************************************)
(* The calls of simulate_hamiltonian the model makes: dictionaries as      *)
(* compute_pauli_coefficients returns them, with terms of the right        *)
(* length, of a wrong length and with a letter that is no Pauli operator;  *)
(* dictionaries that lack a key or hold None for a list; a value that is   *)
(* no dictionary.                                                          *)
(***************************************************************************)
XString(i, nq) == [IdentityString(nq) EXCEPT ![i + 1] = "X"]

TermPool(nq) == {ZString(0, nq), XString(nq - 1, nq), Repeat("Q", nq),
                 Repeat("Z", nq + 1)}

TermLists(nq) == UNION {[1..k -> TermPool(nq)] : k \in 0..MaxTrotTerms}

TimeVals == {1, 2}

TrotKeys == {"pauli_terms", "pauli_coefficients", "num_qubits"}

Without(d, K) == [k \in DOMAIN d \ K |-> d[k]]

InitTrot ==
    /\ PauliIdle /\ SvcIdle /\ RotIdle /\ AmpIdle
    /\ EnIdle /\ EigIdle /\ AppIdle
    /\ tr_pc = "call"
    /\ tr_out = <<>>
    /\ \E nq \in 1..MaxQubitsModel, time \in TimeVals,
          trotter_steps \in 0..MaxTrotSteps, qiskit \in BOOLEAN :
         \E terms \in TermLists(nq), absent \in SUBSET TrotKeys :
           \E clen \in {0, Len(terms)}, tnone \in BOOLEAN, cnone \in BOOLEAN,
              is_dict \in BOOLEAN :
             /\ Cardinality(absent) <= 1 \/ absent = TrotKeys
             /\ is_dict <=> absent # TrotKeys
             /\ tnone => terms = <<>>
             /\ cnone => clen = 0
             /\ tr_in =
                  [pauli_data |->
                      [is_dict |-> is_dict,
                       items |-> Without(
                           [pauli_terms |->
                               IF tnone THEN PyNone ELSE PyList(terms),
                            pauli_coefficients |->
                               IF cnone THEN PyNone
                               ELSE PyList(Repeat(Fx(1), clen)),
                            num_qubits |-> nq], absent)],
                   time |-> time,
                   trotter_steps |-> trotter_steps,
                   qiskit |-> qiskit]

\* the whole call
T_Simulate ==
    /\ tr_pc = "call"
    /\ tr_out' = simulate_hamiltonian(tr_in.pauli_data, tr_in.time,
                                      tr_in.trotter_steps, tr_in.qiskit)
    /\ tr_pc' = "done"
    /\ UNCHANGED <<tr_in, pauliVars, svcVars, rotVars, ampVars, lateVars>>

NextTrot == T_Simulate

SpecTrot == InitTrot /\ [][NextTrot]_vars


(***************************************************************************)
(* Properties of simulate_hamiltonian (checked under SpecTrot).            *)
(***************************************************************************)
TrotDone == tr_pc = "done"

IsMock(r) == "mock" \in DOMAIN r /\ r.mock = TRUE

\* the call's dictionary holds every key, and lists where lists belong
WellFormed(pauli_data) ==
    /\ pauli_data.is_dict
    /\ \A k \in TrotKeys : HasKey(pauli_data.items, k)
    /\ pauli_data.items["pauli_terms"].sized
    /\ pauli_data.items["pauli_coefficients"].sized

\* the handler of line 121 caught an exception of the body
OuterCaught(in) ==
    TryBody(in.pauli_data, in.time, in.trotter_steps, in.qiskit).raised # ""

\* the handler of line 88 caught an exception of the inner try
InnerCaught(in) ==
    /\ WellFormed(in.pauli_data)
    /\ in.qiskit
    /\ in.trotter_steps > 0
    /\ Len(in.pauli_data.items["pauli_terms"].items) > 0
    /\ Len(in.pauli_data.items["pauli_coefficients"].items) > 0
    /\ PauliEvolution(
           HLayerFrom(QuantumCircuit(in.pauli_data.items["num_qubits"]), 0),
           in.pauli_data.items["pauli_terms"].items,
           in.pauli_data.items["pauli_coefficients"].items,
           <<in.time, in.trotter_steps>>).error # ""

CountNamed(data, names) ==
    Cardinality({k \in DOMAIN data : data[k].name \in names})

\* C12: simulate_hamiltonian never raises, whatever pauli_data, time and
\* trotter_steps are (trotter_steps = 0, missing keys, a term list that is
\* no sequence, Qiskit absent): it always returns a result dictionary.
C12_NeverRaises ==
    TrotDone =>
        /\ tr_out.returned
        /\ tr_out.raised = ""
        /\ "circuit_info" \in DOMAIN tr_out.result

\* C13: whenever a step of the synthesis raised an error that was caught,
\* the building of the Pauli evolution operator and the appending of the
\* gates included, the returned result carries 'mock': True.
C13_CaughtErrorMeansMock ==
    (TrotDone /\ tr_out.returned /\ (OuterCaught(tr_in) \/ InnerCaught(tr_in)))
        => IsMock(tr_out.result)

\* C14: with Qiskit unavailable the result has num_qubits as given,
\* num_gates = num_terms * 3 * trotter_steps + num_qubits, depth =
\* trotter_steps * num_terms, a textual circuit sketch, circuit None and
\* 'mock': True.
C14_DegradedMode ==
    (TrotDone /\ ~tr_in.qiskit /\ tr_in.pauli_data.is_dict
       /\ HasKey(tr_in.pauli_data.items, "num_qubits")
       /\ HasKey(tr_in.pauli_data.items, "pauli_terms")
       /\ tr_in.pauli_data.items["pauli_terms"].sized)
    => LET nq == tr_in.pauli_data.items["num_qubits"]
           num_terms == Len(tr_in.pauli_data.items["pauli_terms"].items)
           steps == tr_in.trotter_steps
       IN  /\ tr_out.returned
           /\ IsMock(tr_out.result)
           /\ tr_out.result.circuit = "None"
           /\ tr_out.result.circuit_info.num_qubits = nq
           /\ tr_out.result.circuit_info.num_gates
                  = num_terms * 3 * steps + nq
           /\ tr_out.result.circuit_info.depth = steps * num_terms
           /\ Len(tr_out.result.qasm) > 0
           /\ \E k \in DOMAIN tr_out.result.qasm :
                  tr_out.result.qasm[k] = <<"h", 0>>

\* a degraded call with two terms and three steps has returned
C14_Witness ==
    /\ TrotDone
    /\ ~tr_in.qiskit
    /\ WellFormed(tr_in.pauli_data)
    /\ Len(tr_in.pauli_data.items["pauli_terms"].items) = 2
    /\ tr_in.trotter_steps = 3
    /\ tr_in.pauli_data.items["num_qubits"] = 2
    /\ tr_out.returned
    /\ tr_out.result.circuit_info.num_gates = 20

\* Scenario C: two single-qubit terms on two qubits, three Trotter steps
ScenarioC ==
    /\ WellFormed(tr_in.pauli_data)
    /\ tr_in.pauli_data.items["num_qubits"] = 2
    /\ tr_in.pauli_data.items["pauli_terms"].items
           = <<ZString(0, 2), XString(1, 2)>>
    /\ Len(tr_in.pauli_data.items["pauli_coefficients"].items) = 2
    /\ tr_in.trotter_steps = 3

\* the measurement operations num_gates counts: the barrier and the
\* measures of circuit.data; the mock estimate counts none
MeasurementOps(r) ==
    IF IsMock(r) THEN 0
    ELSE CountNamed(r.circuit.data, {"barrier", "measure"})

\* C15: in Scenario C the gate count is the 2 Hadamards plus 3 * 2
\* rotations, one per term per step, plus the measurement operations only.
C15_ScenarioC ==
    (TrotDone /\ ScenarioC) =>
        /\ tr_out.returned
        /\ tr_out.result.circuit_info.num_gates
               = 2 + 3 * 2 + MeasurementOps(tr_out.result)

\* C16: for the same terms and qubits, num_gates and depth do not decrease
\* when trotter_steps grows from any s1 >= 0 to s2 >= s1, the step from the
\* fallback at s1 = 0 to the built circuit at s2 >= 1 included.
C16_MonotoneInSteps ==
    (TrotDone /\ tr_out.returned) =>
        \A s1 \in 0..tr_in.trotter_steps :
            LET o1 == simulate_hamiltonian(tr_in.pauli_data, tr_in.time, s1,
                                           tr_in.qiskit)
            IN  /\ o1.returned
                /\ o1.result.circuit_info.num_gates
                       <= tr_out.result.circuit_info.num_gates
                /\ o1.result.circuit_info.depth
                       <= tr_out.result.circuit_info.depth

\* a circuit with evolution gates has been built at two steps or more, so
\* that the comparison runs over the fallback at zero steps and a smaller
\* built circuit
C16_Witness ==
    /\ TrotDone
    /\ tr_in.qiskit
    /\ tr_in.trotter_steps >= 2
    /\ tr_out.returned
    /\ ~IsMock(tr_out.result)
    /\ CountNamed(tr_out.result.circuit.data, {"PauliEvolution"})
           = tr_in.trotter_steps
    /\ IsMock(simulate_hamiltonian(tr_in.pauli_data, tr_in.time, 0,
                                   tr_in.qiskit).result)

\* C17: at trotter_steps = 0 the call returns a genuine, non-degraded
\* circuit of Hadamards and measurements only, not the fallback of the
\* division by zero.
C17_ZeroStepsGenuine ==
    (TrotDone /\ tr_in.trotter_steps = 0 /\ tr_in.qiskit
       /\ WellFormed(tr_in.pauli_data))
    => /\ tr_out.returned
       /\ ~IsMock(tr_out.result)
       /\ \A k \in DOMAIN tr_out.result.circuit.data :
              tr_out.result.circuit.data[k].name \in {"h", "barrier", "measure"}


(***************************************************************************)
(* synthesize_pauli_rotation(pauli_string, coefficient, num_qubits).       *)
(***************************************************************************)
MaxRotQubits == 3

\* line 210: [i for i, p in enumerate(pauli_string) if p != 'I']
RECURSIVE ActiveFrom(_, _)
ActiveFrom(pauli_string, x) ==
    IF x > Len(pauli_string) THEN <<>>
    ELSE (IF pauli_string[x] # "I" THEN <<x - 1>> ELSE <<>>)
         \o ActiveFrom(pauli_string, x + 1)

ActiveQubits(pauli_string) == ActiveFrom(pauli_string, 1)

RotationAngleUndoubled(coefficient) == <<coefficient, 1>>
\* lines 222-226, 234: the angle 2 * coefficient
RotationAngle(coefficient) == <<2 * coefficient, 1>>

\* lines 217-226: one active qubit
SingleRotation(circuit, pauli_op, coefficient, q) ==
    IF pauli_op = "X"
    THEN AppendInstr(circuit, Instr("rx", <<q>>, RotationAngle(coefficient)))
    ELSE IF pauli_op = "Y"
    THEN AppendInstr(circuit, Instr("ry", <<q>>, RotationAngle(coefficient)))
    ELSE IF pauli_op = "Z"
    THEN AppendInstr(circuit, Instr("rz", <<q>>, RotationAngle(coefficient)))
    ELSE circuit

CnotLadder(active_qubits) ==
    [i \in 1..(Len(active_qubits) - 1) |->
        Instr("cx", <<active_qubits[i], active_qubits[i + 1]>>, NoParam)]
\* lines 231-232: for q in active_qubits[:-1]: cx(q, active_qubits[-1])
CnotChain(active_qubits) ==
    [i \in 1..(Len(active_qubits) - 1) |->
        Instr("cx", <<active_qubits[i], active_qubits[Len(active_qubits)]>>,
              NoParam)]

Reversed(s) == [i \in 1..Len(s) |-> s[Len(s) + 1 - i]]

\* lines 228-236: two active qubits or more
MultiRotation(circuit, active_qubits, coefficient) ==
    [circuit EXCEPT !.data =
        @ \o CnotChain(active_qubits)
          \o << Instr("rz", <<active_qubits[Len(active_qubits)]>>,
                      RotationAngle(coefficient)) >>
          \o Reversed(CnotChain(active_qubits))]

\* lines 189-238; without Qiskit the function returns None
synthesize_pauli_rotation(pauli_string, coefficient, num_qubits, qiskit) ==
    IF ~qiskit THEN [none |-> TRUE, circuit |-> QuantumCircuit(0)]
    ELSE LET circuit == QuantumCircuit(num_qubits)
             active_qubits == ActiveQubits(pauli_string)
         IN  [none |-> FALSE,
              circuit |->
                 IF Len(active_qubits) = 0
                 THEN [circuit EXCEPT !.global_phase = @ + coefficient]
                 ELSE IF Len(active_qubits) = 1
                 THEN SingleRotation(circuit,
                          pauli_string[active_qubits[1] + 1], coefficient,
                          active_qubits[1])
                 ELSE MultiRotation(circuit, active_qubits, coefficient)]

RotCoefficients == {Fx(-3), Fx(5)}

InitRot ==
    /\ PauliIdle /\ SvcIdle /\ TrotIdle /\ AmpIdle
    /\ EnIdle /\ EigIdle /\ AppIdle
    /\ rot_pc = "call"
    /\ rot_out = <<>>
    /\ \E nq \in 1..MaxRotQubits :
         rot_in \in [pauli_string : [1..nq -> PauliLetters],
                     coefficient : RotCoefficients,
                     num_qubits : {nq},
                     qiskit : BOOLEAN]

\* the whole call
R_Synthesize ==
    /\ rot_pc = "call"
    /\ rot_out' = synthesize_pauli_rotation(rot_in.pauli_string,
                      rot_in.coefficient, rot_in.num_qubits, rot_in.qiskit)
    /\ rot_pc' = "done"
    /\ UNCHANGED <<rot_in, pauliVars, svcVars, trotVars, ampVars, lateVars>>

NextRot == R_Synthesize

SpecRot == InitRot /\ [][NextRot]_vars

(***************************************************************************)
(* Properties of synthesize_pauli_rotation (checked under SpecRot).  They  *)
(* are about the circuit the function builds, that is with Qiskit present; *)
(* without it the function returns None.                                   *)
(***************************************************************************)
RotDone == rot_pc = "done"

\* the non-identity positions of a string (0-based)
NonIdentity(str) == {x - 1 : x \in {y \in DOMAIN str : str[y] # "I"}}

\* the a-th smallest element of a set of numbers
RECURSIVE NthOf(_, _)
NthOf(S, a) == IF a = 1 THEN MinOf(S) ELSE NthOf(S \ {MinOf(S)}, a - 1)

RotationName(letter) ==
    IF letter = "X" THEN "rx" ELSE IF letter = "Y" THEN "ry" ELSE "rz"

\* C18: for the all-identity string no gate is emitted and the coefficient
\* is added to the global phase; for a string with one non-identity
\* position q exactly one gate is emitted: rx, ry or rz, as the letter
\* there is X, Y or Z, on q with angle 2 * coefficient.
C18_ZeroOrOneActive ==
    (RotDone /\ rot_in.qiskit) =>
        LET active == NonIdentity(rot_in.pauli_string)
            data == rot_out.circuit.data
        IN  /\ ~rot_out.none
            /\ (active = {}) =>
                  /\ data = <<>>
                  /\ rot_out.circuit.global_phase = rot_in.coefficient
            /\ (Cardinality(active) = 1) =>
                  LET q == MinOf(active)
                  IN  /\ Len(data) = 1
                      /\ data[1].name
                             = RotationName(rot_in.pauli_string[q + 1])
                      /\ data[1].qubits = <<q>>
                      /\ data[1].param = <<2 * rot_in.coefficient, 1>>
                      /\ rot_out.circuit.global_phase = 0

\* a circuit was built for a string with a single Y, not on the first qubit
C18_Witness ==
    /\ RotDone
    /\ rot_in.qiskit
    /\ ~rot_out.none
    /\ Cardinality(NonIdentity(rot_in.pauli_string)) = 1
    /\ Len(rot_in.pauli_string) >= 2
    /\ rot_in.pauli_string[2] = "Y"
    /\ Len(rot_out.circuit.data) = 1

\* C19: for k >= 2 non-identity positions a_1 < ... < a_k the circuit has
\* exactly 2(k-1)+1 gates, in this order: CNOT(a_1 -> a_k), ...,
\* CNOT(a_{k-1} -> a_k), RZ(2 * coefficient) on a_k, then the same CNOTs in
\* reverse order; the list reads the same backwards and a_k is never a
\* control.
C19_CnotChain ==
    (RotDone /\ rot_in.qiskit
       /\ Cardinality(NonIdentity(rot_in.pauli_string)) >= 2)
    => LET active == NonIdentity(rot_in.pauli_string)
           k == Cardinality(active)
           last == MaxOf(active)
           data == rot_out.circuit.data
       IN  /\ ~rot_out.none
           /\ Len(data) = 2 * (k - 1) + 1
           /\ \A i \in 1..(k - 1) :
                  /\ data[i].name = "cx"
                  /\ data[i].qubits = <<NthOf(active, i), last>>
                  /\ data[k + i].name = "cx"
                  /\ data[k + i].qubits = <<NthOf(active, k - i), last>>
           /\ data[k].name = "rz"
           /\ data[k].qubits = <<last>>
           /\ data[k].param = <<2 * rot_in.coefficient, 1>>
           /\ \A j \in DOMAIN data : data[j] = data[Len(data) + 1 - j]
           /\ \A j \in DOMAIN data :
                  data[j].name = "cx" => data[j].qubits[1] # last

\* a circuit was built for a string with three non-identity positions
C19_Witness ==
    /\ RotDone
    /\ rot_in.qiskit
    /\ ~rot_out.none
    /\ Cardinality(NonIdentity(rot_in.pauli_string)) = 3
    /\ Len(rot_out.circuit.data) = 5


(***************************************************************************)
(* QuantumSimulator._calculate_final_amplitudes(hamiltonian_result,        *)
(* sim_time, qubit_count).  The sample of np.random.exponential is a list  *)
(* of positive weights; probs[i] after the normalisation is the fraction   *)
(* <<weight i, sum of the weights>>.  The phase of an amplitude is random  *)
(* and its modulus is sqrt(probability): the entries of the model carry    *)
(* 'state' and 'probability'.                                              *)
(***************************************************************************)
MaxAmpQubits == 4

sampled_states == 16
returned_states == 10

\* line 192: num_states = min(2**qubit_count, 16)
NumStates(qubit_count) == Min(Pow2(qubit_count), sampled_states)

RECURSIVE SumFrom(_, _)
SumFrom(s, k) == IF k > Len(s) THEN 0 ELSE s[k] + SumFrom(s, k + 1)

\* np.sum
Sum(s) == SumFrom(s, 1)

\* line 197: probs = probs / np.sum(probs)
Normalize(sample) == [i \in DOMAIN sample |-> <<sample[i], Sum(sample)>>]

RECURSIVE Bits(_)
Bits(i) == IF i < 2 THEN <<i>> ELSE Bits(i \div 2) \o <<i % 2>>

\* line 200: format(i, f'0{qubit_count}b')
StateString(i, qubit_count) ==
    IF Len(Bits(i)) >= qubit_count THEN Bits(i)
    ELSE Repeat(0, qubit_count - Len(Bits(i))) \o Bits(i)

\* lines 199-208
Entries(probs, qubit_count) ==
    [i \in DOMAIN probs |->
        [state |-> StateString(i - 1, qubit_count), probability |-> probs[i]]]

\* the first entry of the largest probability (the fractions share their
\* denominator)
FirstLargest(entries) ==
    CHOOSE k \in DOMAIN entries :
        /\ \A j \in DOMAIN entries :
               entries[j].probability[1] <= entries[k].probability[1]
        /\ \A j \in 1..(k - 1) :
               entries[j].probability[1] < entries[k].probability[1]

RemoveAt(s, k) == [i \in 1..(Len(s) - 1) |-> IF i < k THEN s[i] ELSE s[i + 1]]

\* line 211: amplitudes.sort(key=probability, reverse=True); the sort is
\* stable
RECURSIVE SortDescending(_)
SortDescending(entries) ==
    IF Len(entries) = 0 THEN <<>>
    ELSE <<entries[FirstLargest(entries)]>>
         \o SortDescending(RemoveAt(entries, FirstLargest(entries)))

\* line 212: amplitudes[:10]
TopSlice(s) == SubSeq(s, 1, Min(Len(s), returned_states))

\* lines 189-216
calculate_final_amplitudes(qubit_count, sample) ==
    TopSlice(SortDescending(Entries(Normalize(sample), qubit_count)))

Weights == {1, 2}

InitAmp ==
    /\ PauliIdle /\ SvcIdle /\ TrotIdle /\ RotIdle
    /\ EnIdle /\ EigIdle /\ AppIdle
    /\ amp_pc = "call"
    /\ amp_out = <<>>
    /\ \E qubit_count \in 0..MaxAmpQubits :
         amp_in \in [qubit_count : {qubit_count},
                     sample : [1..NumStates(qubit_count) -> Weights]]

\* the whole call
A_Calculate ==
    /\ amp_pc = "call"
    /\ amp_out' = calculate_final_amplitudes(amp_in.qubit_count,
                                             amp_in.sample)
    /\ amp_pc' = "done"
    /\ UNCHANGED <<amp_in, pauliVars, svcVars, trotVars, rotVars, lateVars>>

NextAmp == A_Calculate

SpecAmp == InitAmp /\ [][NextAmp]_vars

(***************************************************************************)
(* Properties of _calculate_final_amplitudes (checked under SpecAmp).      *)
(***************************************************************************)
AmpDone == amp_pc = "done"

\* the returned probabilities, as numerators over the common denominator
ReturnedMass == Sum([k \in DOMAIN amp_out |-> amp_out[k].probability[1]])

\* C20: the probabilities of the returned amplitudes sum to 1 within 1e-6
\* for every qubit_count, qubit_count >= 4 included, where 16 states are
\* sampled and normalised and the top 10 are returned.
C20_ProbabilitiesSumToOne ==
    AmpDone =>
        Abs(Sum(amp_in.sample) - ReturnedMass) * 1000000
            <= Sum(amp_in.sample)


(***************************************************************************)
(* QuantumSimulator._simulate_energy_evolution(hamiltonian_result,         *)
(* sim_time, trotter_steps).  A time is the fraction <<numerator,          *)
(* denominator>> with a positive denominator.  The three energies of a     *)
(* sample are floats computed from its time with exp, cos and sin; they    *)
(* decide neither the number nor the times of the samples and the entries  *)
(* of the model carry 'time'.                                              *)
(***************************************************************************)
MaxEnSteps == 11

max_samples == 100

NumSamplesUncapped(trotter_steps) == trotter_steps * 10
\* line 161: min(100, trotter_steps * 10)
NumSamples(trotter_steps) == Min(max_samples, trotter_steps * 10)

\* np.linspace(0, stop, num): ValueError for num < 0; num points
\* i * (stop / (num - 1)), the last one set to stop itself
Linspace(stop, num) ==
    IF num < 0 THEN Exc("ValueError")
    ELSE IF num = 1 THEN Ret(<< <<0, 1>> >>)
    ELSE Ret([i \in 1..num |->
                 IF i = num THEN <<stop, 1>> ELSE <<(i - 1) * stop, num - 1>>])

\* lines 160-187; the handler of line 185 returns the empty list
simulate_energy_evolution(hamiltonian_result, sim_time, trotter_steps) ==
    LET time_points == Linspace(sim_time, NumSamples(trotter_steps))
    IN  IF time_points.raised # "" THEN <<>>
        ELSE IF ~HasKey(hamiltonian_result, "pauli_decomposition") THEN <<>>
        ELSE [i \in DOMAIN time_points.result |->
                 [time |-> time_points.result[i]]]

SimTimes == {-1, 1, 3}

Decompositions ==
    {<<>>, <<[operator |-> <<"Z">>, coefficient |-> Fx(1)]>>,
     <<[operator |-> <<"I">>, coefficient |-> Fx(2)],
       [operator |-> <<"Z">>, coefficient |-> Fx(-1)]>>}

InitEnergy ==
    /\ PauliIdle /\ SvcIdle /\ TrotIdle /\ RotIdle /\ AmpIdle
    /\ EigIdle /\ AppIdle
    /\ en_pc = "call"
    /\ en_out = <<>>
    /\ \E d \in Decompositions, keep \in BOOLEAN :
         en_in \in [hamiltonian_result :
                        {IF keep
                         THEN [pauli_decomposition |-> d, qubit_count |-> 1]
                         ELSE [qubit_count |-> 1]},
                    sim_time : SimTimes,
                    trotter_steps : -1..MaxEnSteps]

\* the whole call
E_Simulate ==
    /\ en_pc = "call"
    /\ en_out' = simulate_energy_evolution(en_in.hamiltonian_result,
                     en_in.sim_time, en_in.trotter_steps)
    /\ en_pc' = "done"
    /\ UNCHANGED <<en_in, pauliVars, svcVars, synthVars, eigVars, appVars>>

NextEnergy == E_Simulate

SpecEnergy == InitEnergy /\ [][NextEnergy]_vars

(***************************************************************************)
(* Properties of _simulate_energy_evolution (checked under SpecEnergy).    *)
(***************************************************************************)
EnDone == en_pc = "done"

FracLeq(a, b) == a[1] * b[2] <= b[1] * a[2]

\* C21: for sim_time > 0 and trotter_steps >= 1 (and a Hamiltonian result
\* that holds its decomposition) the series has exactly
\* min(100, 10 * trotter_steps) samples, never more than 100, the first at
\* time 0, the last at time sim_time, times non-decreasing; for
\* trotter_steps <= 0 the series is empty and nothing is raised.
C21_SampleCountAndTimes ==
    EnDone =>
        /\ (en_in.sim_time > 0 /\ en_in.trotter_steps >= 1
              /\ HasKey(en_in.hamiltonian_result, "pauli_decomposition"))
           => /\ Len(en_out) = 10 * en_in.trotter_steps
                     \/ (10 * en_in.trotter_steps >= 100 /\ Len(en_out) = 100)
              /\ Len(en_out) <= 100
              /\ Len(en_out) <= 10 * en_in.trotter_steps
              /\ en_out[1].time[1] = 0
              /\ en_out[Len(en_out)].time[1]
                     = en_in.sim_time * en_out[Len(en_out)].time[2]
              /\ \A i \in 1..(Len(en_out) - 1) :
                     FracLeq(en_out[i].time, en_out[i + 1].time)
        /\ (en_in.trotter_steps <= 0) => en_out = <<>>

\* a series capped at 100 samples has been returned
C21_Witness ==
    /\ EnDone
    /\ en_in.sim_time = 3
    /\ en_in.trotter_steps = 11
    /\ Len(en_out) = 100
    /\ en_out[2].time = <<3, 99>>


(***************************************************************************)
(* compute_H with its eigenvalues.  The eigen-solve is known by the        *)
(* spectrum it finds for the block it is given (in ascending order, as     *)
(* np.linalg.eigh returns it), by whether the inversion of M raises        *)
(* (singular M) and by whether scipy's eigsh raises.  An entry of H is the *)
(* fraction <<numerator, denominator>>.  "attempts" lists the solvers the  *)
(* call ran, in order.  The systems are small (n <= MaxEigDofs): the dense *)
(* branch is that of n <= 1000 (line 72) and the reduced block of line 56  *)
(* is the whole matrix.                                                    *)
(***************************************************************************)
MaxEigDofs == 5

Solved(eigenvalues, attempts) ==
    [raised |-> "", eigenvalues |-> eigenvalues, attempts |-> attempts]

Unsolved(e, attempts) ==
    [raised |-> e, eigenvalues |-> <<>>, attempts |-> attempts]

\* the entries of s at the index set I, in the order of s
RECURSIVE Pick(_, _, _)
Pick(s, I, k) ==
    IF k > Len(s) THEN <<>>
    ELSE (IF k \in I THEN <<s[k]>> ELSE <<>>) \o Pick(s, I, k + 1)

\* line 76: eigenvalues[:num_modes] of the ascending list
LowestAlgebraic(spectrum, k) == SubSeq(spectrum, 1, SliceLen(Len(spectrum), k))
\* line 52: eigsh(K, k=num_modes, M=M, which='SM'), the k eigenvalues of
\* smallest magnitude
SmallestMagnitude(spectrum, k) ==
    Pick(spectrum,
         CHOOSE I \in SUBSET DOMAIN spectrum :
             /\ Cardinality(I) = k
             /\ \A i \in I : \A j \in DOMAIN spectrum \ I :
                    Abs(spectrum[i]) <= Abs(spectrum[j]),
         1)

\* lines 56-63: the reduced dense problem after a failure of eigsh
ReducedDense(in, num_modes) ==
    IF in.M_singular THEN Unsolved("LinAlgError", <<"eigsh", "reduced dense">>)
    ELSE Solved(LowestAlgebraic(in.spectrum, num_modes),
                <<"eigsh", "reduced dense">>)

\* lines 49-88: eigsh raises for k <= 0 and when it fails to converge or to
\* factor M
EigenSolve(in, num_modes) ==
    IF in.K_sparse /\ in.M_sparse
    THEN IF num_modes >= 1 /\ ~in.eigsh_fails
         THEN Solved(SmallestMagnitude(in.spectrum, num_modes), <<"eigsh">>)
         ELSE ReducedDense(in, num_modes)
    ELSE IF in.M_singular THEN Unsolved("LinAlgError", <<"dense">>)
         ELSE Solved(LowestAlgebraic(in.spectrum, num_modes), <<"dense">>)

\* line 102: eig_max - eig_min > 1e-10, on integer eigenvalues
SpreadAboveGuard(eig_min, eig_max) == eig_max - eig_min > 0

\* lines 100-105
NormalizedEigs(eigenvalues) ==
    LET eig_min == MinOf({eigenvalues[i] : i \in DOMAIN eigenvalues})
        eig_max == MaxOf({eigenvalues[i] : i \in DOMAIN eigenvalues})
    IN  IF SpreadAboveGuard(eig_min, eig_max)
        THEN [i \in DOMAIN eigenvalues |->
                 <<eigenvalues[i] - eig_min, eig_max - eig_min>>]
        ELSE [i \in DOMAIN eigenvalues |-> <<eigenvalues[i], 1>>]

\* lines 90-126: the log line reads eigenvalues[0]; H is built by the
\* method; every exception is logged and raised again
BuildH(in, solved) ==
    IF solved.raised # ""
    THEN [raised |-> solved.raised, attempts |-> solved.attempts]
    ELSE IF Len(solved.eigenvalues) = 0
    THEN [raised |-> "IndexError", attempts |-> solved.attempts]
    ELSE IF in.method \notin {"standard", "normalized"}
    THEN [raised |-> "ValueError", attempts |-> solved.attempts]
    ELSE [raised |-> "",
          attempts |-> solved.attempts,
          H |-> IF in.method = "standard"
                THEN [i \in DOMAIN solved.eigenvalues |->
                         <<solved.eigenvalues[i], 1>>]
                ELSE NormalizedEigs(solved.eigenvalues),
          eigenvalues |-> solved.eigenvalues,
          num_dofs |-> in.n,
          num_modes |-> Len(solved.eigenvalues)]

\* lines 13-126
compute_H_eigen(in) == BuildH(in, EigenSolve(in, Min(in.num_modes, in.n - 2)))

\* eigenvalues whose magnitudes differ unless they are equal
EigVals == {-3, 1, 2}

Ascending(s) == \A i \in 1..(Len(s) - 1) : s[i] <= s[i + 1]

Spectra(n) == {s \in [1..n -> EigVals] : Ascending(s)}

InitEig ==
    /\ PauliIdle /\ SvcIdle /\ TrotIdle /\ RotIdle /\ AmpIdle
    /\ EnIdle /\ AppIdle
    /\ eig_pc = "call"
    /\ eig_out = <<>>
    /\ \E n \in 1..MaxEigDofs :
         eig_in \in [n : {n}, K_sparse : BOOLEAN, M_sparse : BOOLEAN,
                     M_singular : BOOLEAN, eigsh_fails : BOOLEAN,
                     spectrum : Spectra(n),
                     num_modes : {2, 4, 10},
                     method : {"standard", "normalized", "spectral"}]

\* the whole call
G_ComputeH ==
    /\ eig_pc = "call"
    /\ eig_out' = compute_H_eigen(eig_in)
    /\ eig_pc' = "done"
    /\ UNCHANGED <<eig_in, pauliVars, svcVars, synthVars, enVars, appVars>>

NextEig == G_ComputeH

SpecEig == InitEig /\ [][NextEig]_vars

(***************************************************************************)
(* Properties of compute_H (checked under SpecEig).                        *)
(***************************************************************************)
EigDone == eig_pc = "done"

EigReturned == eig_pc = "done" /\ eig_out.raised = ""

\* the first eigen-solve of the call failed
FirstSolveFailed ==
    IF eig_in.K_sparse /\ eig_in.M_sparse
    THEN eig_in.eigsh_fails \/ Min(eig_in.num_modes, eig_in.n - 2) < 1
    ELSE eig_in.M_singular

\* C23: on sparse and on dense inputs alike, a failed eigen-solve is
\* followed by exactly one retry on a reduced dense block; the failure
\* reaches the caller only if that retry fails too, and there is never a
\* second retry.
C23_OneRetry ==
    EigDone =>
        /\ Len(eig_out.attempts) <= 2
        /\ FirstSolveFailed =>
              /\ Len(eig_out.attempts) = 2
              /\ eig_out.attempts[2] = "reduced dense"
              /\ (eig_out.raised = "LinAlgError") => eig_in.M_singular

\* C24: with method = 'normalized' every diagonal entry of H lies in
\* [0, 1], whatever the eigenvalues are, all equal included.
C24_NormalizedInUnitInterval ==
    (EigReturned /\ eig_in.method = "normalized") =>
        \A i \in DOMAIN eig_out.H :
            /\ 0 <= eig_out.H[i][1]
            /\ eig_out.H[i][1] <= eig_out.H[i][2]

\* C26: the eigenvalues kept are m = min(num_modes, n - 2) of smallest
\* magnitude, on the sparse and on the dense path, negative eigenvalues
\* included; the side of H, the number of eigenvalues and num_modes are m.
C26_SmallestMagnitudeKept ==
    EigReturned =>
        LET m == Min(eig_in.num_modes, eig_in.n - 2)
        IN  /\ Len(eig_out.H) = m
            /\ Len(eig_out.eigenvalues) = m
            /\ eig_out.num_modes = m
            /\ \E I \in SUBSET DOMAIN eig_in.spectrum :
                   /\ Cardinality(I) = m
                   /\ \A i \in I : \A j \in DOMAIN eig_in.spectrum \ I :
                          Abs(eig_in.spectrum[i]) <= Abs(eig_in.spectrum[j])
                   /\ \A k \in DOMAIN eig_out.eigenvalues :
                          Cardinality({x \in DOMAIN eig_out.eigenvalues :
                              eig_out.eigenvalues[x]
                                  = eig_out.eigenvalues[k]})
                          = Cardinality({i \in I : eig_in.spectrum[i]
                                  = eig_out.eigenvalues[k]})


(***************************************************************************)
(* The web service (routes.py) over the files of FileHandler                *)
(* (file_handler.py), for one file_id.  fs is what the disk holds for that *)
(* file_id: the metadata file, the uploaded mesh file, the pickled results *)
(* (a dictionary from the computation type to the result), the set of      *)
(* summary files and the number of export files.  Every request handler is *)
(* one step.  app_hist records what the handlers did: whether the file_id  *)
(* was issued, the trotter_steps of every call of                          *)
(* QuantumSimulator.run_simulation and, for every result stored, whether   *)
(* the request had found the result of the stage before.                   *)
(***************************************************************************)
MaxExports == 1

DEFAULT_TROTTER_STEPS == 10

Put(d, k, v) == [x \in DOMAIN d \cup {k} |-> IF x = k THEN v ELSE d[x]]

NoFiles == [metadata |-> FALSE, upload |-> FALSE, results |-> <<>>,
            summaries |-> {}, exports |-> 0]

Response(op, code) == [op |-> op, code |-> code, data |-> <<>>]

\* get_file_metadata: None unless the metadata file exists
HasMetadata(files) == files.metadata

\* get_computation_result: None unless the pickle file exists
HasResult(files, computation_type) == HasKey(files.results, computation_type)

\* store_computation_result: the pickle file is written first, the summary
\* file second; an exception at either write is logged and False returned
store_computation_result(files, computation_type, res, fails_at) ==
    IF fails_at = "pickle" THEN files
    ELSE IF fails_at = "summary"
    THEN [files EXCEPT !.results = Put(@, computation_type, res)]
    ELSE [files EXCEPT !.results = Put(@, computation_type, res),
                       !.summaries = @ \cup {computation_type}]

StoreFailures == {"no", "pickle", "summary"}

\* lines 119-123 of file_handler.py: the computation type whose summary
\* file sets a status key
SummaryTypeSwapped(status_key) ==
    IF status_key = "matrices_computed" THEN "hamiltonian"
    ELSE IF status_key = "hamiltonian_computed" THEN "matrices"
    ELSE "simulation"

SummaryType(status_key) ==
    IF status_key = "matrices_computed" THEN "matrices"
    ELSE IF status_key = "hamiltonian_computed" THEN "hamiltonian"
    ELSE "simulation"

get_processing_status(files) ==
    [uploaded |-> HasMetadata(files),
     matrices_computed |-> SummaryType("matrices_computed") \in files.summaries,
     hamiltonian_computed |->
         SummaryType("hamiltonian_computed") \in files.summaries,
     simulation_completed |->
         SummaryType("simulation_completed") \in files.summaries]

\* delete_file_data, in the order of the code: the metadata file, the
\* result and summary files, the uploaded file named by the metadata as
\* get_file_metadata reads it at that moment, the export files
delete_file_data(files) ==
    LET no_metadata == [files EXCEPT !.metadata = FALSE]
        no_results == [no_metadata EXCEPT !.results = <<>>, !.summaries = {}]
        no_upload == IF HasMetadata(no_results)
                     THEN [no_results EXCEPT !.upload = FALSE]
                     ELSE no_results
    IN  [no_upload EXCEPT !.exports = 0]

\* QuantumSimulator.compute_hamiltonian(matrices_result, max_pauli_terms)
compute_hamiltonian_call(matrices_result, eigsh_fails) ==
    LET h == compute_H(matrices_result.mass_matrix,
                       matrices_result.stiffness_matrix,
                       matrices_result.n, 10, eigsh_fails)
    IN  IF h.kind = "raise" THEN Failure(h.error, -1) ELSE AfterComputeH(h)

\* line 297
MockCircuitDepth(trotter_steps, num_terms) == trotter_steps * num_terms * 3

\* QuantumSimulator._mock_simulation
mock_simulation(hamiltonian_result, simulation_params, sample) ==
    LET qubit_count == hamiltonian_result.qubit_count
        sim_time == Get(simulation_params, "time", 1)
        trotter_steps == Get(simulation_params, "trotter_steps", 10)
        circuit_depth ==
            MockCircuitDepth(trotter_steps,
                             Len(hamiltonian_result.pauli_decomposition))
        gate_count == circuit_depth * qubit_count
    IN  [circuit |-> "None",
         circuit_depth |-> circuit_depth,
         gate_count |-> gate_count,
         energy_evolution |->
             simulate_energy_evolution(hamiltonian_result, sim_time,
                                       trotter_steps),
         final_amplitudes |-> calculate_final_amplitudes(qubit_count, sample),
         execution_time |-> 1,
         simulation_parameters |-> simulation_params,
         mock_simulation |-> TRUE]

\* QuantumSimulator.run_simulation: without qiskit the mock simulation;
\* with qiskit the call simulate_hamiltonian(pauli_dict, sim_time,
\* qubit_count, trotter_steps) of line 116 hands four arguments to a
\* function of three parameters, a TypeError, logged and raised again
run_simulation(hamiltonian_result, simulation_params, qiskit, sample) ==
    IF ~qiskit
    THEN Ret(mock_simulation(hamiltonian_result, simulation_params, sample))
    ELSE Exc("TypeError")

\* the matrices a mesh gives
MeshMatrices ==
    [n : {8}, stiffness_matrix : [sparse : {FALSE}, singular : BOOLEAN],
     mass_matrix : [sparse : {FALSE}, singular : {FALSE}]]

\* a Hamiltonian result on disk
StoredHamiltonians ==
    [qubit_count : {1}, pauli_decomposition : Decompositions]

\* the simulation_params of a request
SimulationParams ==
    [time : {0, 1}, trotter_steps : {0, 3, 1001}] \cup [time : {1}]

\* the disk holds nothing for a file_id that is yet to be issued, or it
\* holds what an earlier run of the service stored for the file_id (the
\* directories of FileHandler outlive the process)
InitApp ==
    /\ PauliIdle /\ SvcIdle /\ TrotIdle /\ RotIdle /\ AmpIdle
    /\ EnIdle /\ EigIdle
    /\ app_env \in [qiskit : BOOLEAN]
    /\ app_resp = Response("none", 0)
    /\ \/ /\ fs = NoFiles
          /\ app_hist = [issued |-> FALSE, calls |-> {}, stores |-> {}]
       \/ /\ \E h \in StoredHamiltonians :
               fs = [metadata |-> TRUE, upload |-> TRUE,
                     results |->
                         [t \in {"matrices", "hamiltonian"} |->
                             IF t = "hamiltonian" THEN h
                             ELSE [n |-> 8,
                                   stiffness_matrix |->
                                       [sparse |-> FALSE, singular |-> FALSE],
                                   mass_matrix |->
                                       [sparse |-> FALSE, singular |-> FALSE]]],
                     summaries |-> {"matrices", "hamiltonian"},
                     exports |-> 0]
          /\ app_hist = [issued |-> TRUE, calls |-> {}, stores |-> {}]

Stored(computation_type, found) ==
    [app_hist EXCEPT !.stores =
        @ \cup {[type |-> computation_type, found |-> found]}]

\* upload_mesh: the file_id is a fresh uuid4, issued once
W_Upload ==
    /\ ~app_hist.issued
    /\ \E file_ok \in BOOLEAN, mesh_ok \in BOOLEAN, metadata_ok \in BOOLEAN :
         IF ~file_ok
         THEN /\ app_resp' = Response("upload", 400)
              /\ UNCHANGED <<fs, app_hist>>
         ELSE IF ~mesh_ok
         THEN \* the file is saved and unlinked again
              /\ app_resp' = Response("upload", 500)
              /\ UNCHANGED <<fs, app_hist>>
         ELSE /\ fs' = [fs EXCEPT !.upload = TRUE, !.metadata = metadata_ok]
              /\ app_hist' = [app_hist EXCEPT !.issued = TRUE]
              /\ app_resp' = Response("upload", 200)
    /\ UNCHANGED <<pauliVars, svcVars, synthVars, enVars, eigVars, app_env>>

\* process_matrices
W_ProcessMatrices ==
    /\ \E has_id \in BOOLEAN, properties_ok \in BOOLEAN, computed \in BOOLEAN :
         IF ~has_id \/ ~properties_ok
         THEN /\ app_resp' = Response("process_matrices", 400)
              /\ UNCHANGED <<fs, app_hist>>
         ELSE IF ~HasMetadata(fs) \/ ~fs.upload
         THEN /\ app_resp' = Response("process_matrices", 404)
              /\ UNCHANGED <<fs, app_hist>>
         ELSE IF ~computed
         THEN /\ app_resp' = Response("process_matrices", 500)
              /\ UNCHANGED <<fs, app_hist>>
         ELSE /\ \E m \in MeshMatrices, fails_at \in StoreFailures :
                   fs' = store_computation_result(fs, "matrices", m, fails_at)
              /\ app_hist' = Stored("matrices", HasMetadata(fs))
              /\ app_resp' = Response("process_matrices", 200)
    /\ UNCHANGED <<pauliVars, svcVars, synthVars, enVars, eigVars, app_env>>

\* compute_hamiltonian
W_ComputeHamiltonian ==
    /\ \E has_id \in BOOLEAN, eigsh_fails \in BOOLEAN :
         IF ~has_id
         THEN /\ app_resp' = Response("compute_hamiltonian", 400)
              /\ UNCHANGED <<fs, app_hist>>
         ELSE IF ~HasResult(fs, "matrices")
         THEN /\ app_resp' = Response("compute_hamiltonian", 400)
              /\ UNCHANGED <<fs, app_hist>>
         ELSE LET hamiltonian_result ==
                      compute_hamiltonian_call(fs.results["matrices"],
                                               eigsh_fails)
              IN  IF hamiltonian_result.kind = "error"
                  THEN /\ app_resp' = Response("compute_hamiltonian", 500)
                       /\ UNCHANGED <<fs, app_hist>>
                  ELSE /\ \E fails_at \in StoreFailures :
                            fs' = store_computation_result(
                                      fs, "hamiltonian", hamiltonian_result,
                                      fails_at)
                       /\ app_hist' = Stored("hamiltonian",
                                             HasResult(fs, "matrices"))
                       /\ app_resp' = Response("compute_hamiltonian", 200)
    /\ UNCHANGED <<pauliVars, svcVars, synthVars, enVars, eigVars, app_env>>

\* run_simulation (routes.py)
W_RunSimulation ==
    /\ \E has_id \in BOOLEAN, simulation_params \in SimulationParams :
         IF ~has_id
         THEN /\ app_resp' = Response("run_simulation", 400)
              /\ UNCHANGED <<fs, app_hist>>
         ELSE IF ~HasResult(fs, "hamiltonian")
         THEN /\ app_resp' = Response("run_simulation", 400)
              /\ UNCHANGED <<fs, app_hist>>
         ELSE LET hamiltonian_result == fs.results["hamiltonian"]
                  sim_time == Get(simulation_params, "time", 1)
                  trotter_steps == Get(simulation_params, "trotter_steps",
                                       DEFAULT_TROTTER_STEPS)
              IN  IF sim_time <= 0 \/ trotter_steps <= 0
                  THEN /\ app_resp' = Response("run_simulation", 400)
                       /\ UNCHANGED <<fs, app_hist>>
                  ELSE \E sample \in
                           [1..NumStates(hamiltonian_result.qubit_count)
                               -> Weights] :
                         LET called ==
                                 [app_hist EXCEPT !.calls =
                                     @ \cup {Get(simulation_params,
                                                 "trotter_steps", 10)}]
                             simulation_result ==
                                 run_simulation(hamiltonian_result,
                                                simulation_params,
                                                app_env.qiskit, sample)
                         IN  IF simulation_result.raised # ""
                             THEN /\ app_resp' =
                                         Response("run_simulation", 500)
                                  /\ app_hist' = called
                                  /\ fs' = fs
                             ELSE /\ \E fails_at \in StoreFailures :
                                       fs' = store_computation_result(
                                                 fs, "simulation",
                                                 simulation_result.result,
                                                 fails_at)
                                  /\ app_hist' =
                                         [called EXCEPT !.stores =
                                             @ \cup {[type |-> "simulation",
                                                      found |-> HasResult(
                                                          fs, "hamiltonian")]}]
                                  /\ app_resp' =
                                         Response("run_simulation", 200)
    /\ UNCHANGED <<pauliVars, svcVars, synthVars, enVars, eigVars, app_env>>

\* export_results (routes.py): get_results answers 404 without metadata
W_Export ==
    /\ fs.exports < MaxExports
    /\ \E format_ok \in BOOLEAN :
         IF ~format_ok
         THEN /\ app_resp' = Response("export", 400)
              /\ fs' = fs
         ELSE IF ~HasMetadata(fs)
         THEN /\ app_resp' = Response("export", 404)
              /\ fs' = fs
         ELSE /\ fs' = [fs EXCEPT !.exports = @ + 1]
              /\ app_resp' = Response("export", 200)
    /\ UNCHANGED <<pauliVars, svcVars, synthVars, enVars, eigVars, app_env,
                   app_hist>>

\* get_status
W_Status ==
    /\ app_resp' = [op |-> "status", code |-> 200,
                    data |-> get_processing_status(fs)]
    /\ UNCHANGED <<pauliVars, svcVars, synthVars, enVars, eigVars, app_env,
                   app_hist, fs>>

\* delete_file: delete_file_data returns True
W_Delete ==
    /\ fs' = delete_file_data(fs)
    /\ app_resp' = Response("delete", 200)
    /\ UNCHANGED <<pauliVars, svcVars, synthVars, enVars, eigVars, app_env,
                   app_hist>>

NextApp ==
    \/ W_Upload \/ W_ProcessMatrices \/ W_ComputeHamiltonian
    \/ W_RunSimulation \/ W_Export \/ W_Status \/ W_Delete

SpecApp == InitApp /\ [][NextApp]_vars


(***************************************************************************)
(* Properties of the web service (checked under SpecApp).                  *)
(***************************************************************************)
Status == get_processing_status(fs)

SimulationStored == HasResult(fs, "simulation")

\* C25: every call of QuantumSimulator.run_simulation made by the
\* run_simulation request handler has trotter_steps <= 1000: a request
\* with more steps is rejected before the call.
C25_StepsAtMost1000 == \A steps \in app_hist.calls : steps <= 1000

\* C28: after delete_file_data has returned True nothing of the file_id
\* remains: no metadata file, no result or summary file, no export file and
\* no uploaded mesh file.
C28_DeleteLeavesNothing ==
    (app_resp.op = "delete" /\ app_resp.code = 200) =>
        /\ ~fs.metadata
        /\ DOMAIN fs.results = {}
        /\ fs.summaries = {}
        /\ fs.exports = 0
        /\ ~fs.upload

C30_MockPathsAgree ==
    (SimulationStored /\ HasResult(fs, "hamiltonian")) =>
        LET r == fs.results["simulation"]
            h == fs.results["hamiltonian"]
            terms == Len(h.pauli_decomposition)
            steps == Get(r.simulation_parameters, "trotter_steps", 10)
            c == create_mock_circuit_result(h.qubit_count, terms, steps)
        IN  /\ r.gate_count = c.circuit_info.num_gates
            /\ r.circuit_depth = c.circuit_info.depth
            /\ c.circuit_info.num_gates = terms * 3 * steps + h.qubit_count
            /\ c.circuit_info.depth = steps * terms
            /\ HasKey(r, "mock_simulation") /\ HasKey(c, "mock")


(***************************************************************************)
(* The whole model: any one of the components runs.                        *)
(***************************************************************************)
Init ==
    \/ InitPauli \/ InitHam \/ InitTrot \/ InitRot \/ InitAmp
    \/ InitEnergy \/ InitEig \/ InitApp

Next ==
    \/ NextPauli \/ NextHam \/ NextTrot \/ NextRot \/ NextAmp
    \/ NextEnergy \/ NextEig \/ NextApp

Spec == Init /\ [][Next]_vars

=============================================================================
